---- MODULE Spec2Model ----
(***************************************************************************)
(* Portfolio valuation and tax-lot computation of the IntelliInvestor      *)
(* server: the Portfolio model with its pre('save') aggregator, the        *)
(* portfolio routes (create / update / delete portfolio, add / update /    *)
(* remove investment, price refresh) and the tax routes (capital gains).   *)
(*                                                                         *)
(* Money amounts are integers (one unit = one cent, say); instants are     *)
(* integers counted in ticks of 1000 ms, so that a year of ticks fits the  *)
(* model checker's integers.                                               *)
(***************************************************************************)
EXTENDS Integers, Sequences, FiniteSets, TLC

VARIABLES
  db,         \* the portfolios collection: portfolio id -> persisted document
  nextPid,    \* next portfolio _id to hand out
  nextLotId,  \* next investment sub-document _id to hand out
  now,        \* the server clock (what new Date() / Date.now() returns)
  reqs        \* the requests in flight: slot -> handler state

vars == <<db, nextPid, nextLotId, now, reqs>>

-----------------------------------------------------------------------------
(* Bounds of the model *)

MaxPortfolios == 2     \* portfolios ever created in one behaviour
MaxLotIds == 2         \* investments ever added in one behaviour
MaxClock == 1          \* clock readings 0..MaxClock in the CRUD specifications

Users == {"u1", "u2"}
Slots == {1, 2}
PIds == 1..MaxPortfolios

-----------------------------------------------------------------------------
(* JavaScript values that reach the handlers: undefined, a number, the      *)
(* numeric string of a number (every field of a url-encoded body, or a      *)
(* quoted number in a JSON body), the empty string, a string that is       *)
(* neither a number nor a date, a date string of an instant.                *)

Undef == [t |-> "undef", v |-> 0]
EmptyStr == [t |-> "empty", v |-> 0]
BadStr == [t |-> "str", v |-> 0]
Num(n) == [t |-> "num", v |-> n]
NumStr(n) == [t |-> "numstr", v |-> n]
DateStr(i) == [t |-> "date", v |-> i]

\* JS truthiness: undefined, 0 and "" are falsy; a non-empty string is
\* truthy, the string "0" included.
Truthy(x) == \/ x.t \in {"str", "numstr", "date"}
             \/ x.t = "num" /\ x.v # 0

\* a || b
JsOr(a, b) == IF Truthy(a) THEN a ELSE b

\* express-validator isNumeric(): the value, as a string, is a signed number.
IsNumeric(x) == x.t \in {"num", "numstr"}

\* 1000 * 60 * 60 * 24 ms, in ticks of 1000 ms
TicksPerDay == 86400

\* the leap years before year y
LeapsBefore(y) == (y - 1) \div 4 - (y - 1) \div 100 + (y - 1) \div 400

\* the instant of y-01-01T00:00; instant 0 of the model is 2023-01-01T00:00
\* server time, and the server's zone is UTC
YearStart(y) ==
  (365 * (y - 2023) + LeapsBefore(y) - LeapsBefore(2023)) * TicksPerDay

\* new Date(0)
EpochInstant == YearStart(1970)

\* the time value of a value that did not cast to a Date (NaN): no instant
InvalidDate == -2147483647

\* the schema's cast of a truthy value to Date: a date string is its instant,
\* a number (or a string of at least six digits, >= 275761) is that many ms
\* after the epoch, the four digits of a year are the start of the year, any
\* other string that is no number fails the cast. Shorter digit strings, which
\* go to the engine's fallback parser, are outside the model.
CastDate(x) ==
  CASE x.t = "date" -> x.v
    [] x.t = "num" -> EpochInstant + x.v \div 1000
    [] x.t = "numstr" /\ (x.v >= 275761 \/ x.v < -271820) ->
         EpochInstant + x.v \div 1000
    [] x.t = "numstr" /\ 1000 <= x.v /\ x.v <= 9999 -> YearStart(x.v)
    [] x.t \in {"str", "empty", "undef"} -> InvalidDate

\* String.prototype.toUpperCase on the ticker symbols of the model.
ToUpperCase(s) == IF s = "x" THEN "X" ELSE IF s = "y" THEN "Y" ELSE s

-----------------------------------------------------------------------------
(* The Portfolio model *)

\* no document under this _id (never created, or deleted)
NoDoc == [exists |-> FALSE, user |-> "", isDefault |-> FALSE,
          investments |-> <<>>, totalCost |-> 0, totalValue |-> 0,
          updatedAt |-> 0, version |-> 0]

RECURSIVE Reduce(_, _, _)
\* Array.prototype.reduce((total, x) => total + term(x), init) from index i
\* on; terms[k] is the term the callback adds for the k-th element
Reduce(terms, i, total) ==
  IF i > Len(terms) THEN total
  ELSE Reduce(terms, i + 1, total + terms[i])

\* investment.purchasePrice * investment.shares
LotCost(inv) == inv.purchasePrice * inv.shares

\* the terms of the totalCost reduce
CostTerms(invs) == [k \in 1..Len(invs) |-> LotCost(invs[k])]

\* faulty variant: the current price is used only when it is positive
PriceOrPurchasePositive(inv) ==
  IF inv.currentPrice.t = "num" /\ inv.currentPrice.v > 0
  THEN inv.currentPrice.v ELSE inv.purchasePrice

\* const currentPrice = investment.currentPrice || investment.purchasePrice
PriceOrPurchase(inv) == JsOr(inv.currentPrice, Num(inv.purchasePrice)).v

\* currentPrice * investment.shares
LotValue(inv) == PriceOrPurchase(inv) * inv.shares

\* the terms of the totalValue reduce
ValueTerms(invs) == [k \in 1..Len(invs) |-> LotValue(invs[k])]

\* faulty variant: the hook recomputes totalCost but leaves totalValue as loaded
PreSaveStaleValue(doc, clock) ==
  [doc EXCEPT !.totalCost = Reduce(CostTerms(doc.investments), 1, 0),
              !.updatedAt = clock]

\* faulty variant: the hook returns early when there are no investments
PreSaveSkipEmpty(doc, clock) ==
  IF Len(doc.investments) = 0 THEN [doc EXCEPT !.updatedAt = clock]
  ELSE [doc EXCEPT !.totalCost = Reduce(CostTerms(doc.investments), 1, 0),
                   !.totalValue = Reduce(ValueTerms(doc.investments), 1, 0),
                   !.updatedAt = clock]

\* PortfolioSchema.pre('save'): recompute the totals, stamp updatedAt
PreSave(doc, clock) ==
  [doc EXCEPT !.totalCost = Reduce(CostTerms(doc.investments), 1, 0),
              !.totalValue = Reduce(ValueTerms(doc.investments), 1, 0),
              !.updatedAt = clock]

\* faulty variant: the schema has no minimum
LotValidAny(inv) == TRUE

\* InvestmentSchema validators: shares and purchasePrice required numbers,
\* min 0; purchaseDate must have cast to a Date.
LotValid(inv) == /\ inv.shares >= 0
                 /\ inv.purchasePrice >= 0
                 /\ inv.purchaseDate # InvalidDate

\* schema defaults applied to a loaded or new sub-document: currentPrice 0
ApplyLotDefaults(inv) ==
  IF inv.currentPrice.t = "undef" THEN [inv EXCEPT !.currentPrice = Num(0)]
  ELSE inv

\* a document hydrated from the collection
Hydrate(doc) ==
  [doc EXCEPT !.investments =
     [i \in 1..Len(doc.investments) |-> ApplyLotDefaults(doc.investments[i])]]

\* faulty variant: the query forgets the owner
FindOneAnyOwner(pid, u) ==
  IF pid \in PIds /\ db[pid].exists THEN Hydrate(db[pid]) ELSE NoDoc

\* Portfolio.findOne({ _id: pid, user: u })
FindOne(pid, u) ==
  IF pid \in PIds /\ db[pid].exists /\ db[pid].user = u
  THEN Hydrate(db[pid]) ELSE NoDoc

\* index in invs of the sub-document with this _id, 0 if none
IndexOfId(invs, id) ==
  LET hits == {i \in 1..Len(invs) : invs[i].id = id}
  IN IF hits = {} THEN 0 ELSE CHOOSE i \in hits : TRUE

\* the stored sub-document with the fields modified since loading written
PersistLot(stored, orig, inv) ==
  [f \in DOMAIN inv |-> IF inv[f] # orig[f] THEN inv[f] ELSE stored[f]]

\* the _ids of the sub-documents of an array
IdsOf(invs) == {invs[i].id : i \in 1..Len(invs)}

\* the sub-documents pushed since loading ($push)
Pushed(orig, invs) == SelectSeq(invs, LAMBDA inv : inv.id \notin IdsOf(orig))

\* the _ids pulled since loading ($pull)
Pulled(orig, invs) == IdsOf(orig) \ IdsOf(invs)

\* a loaded sub-document has a modified field ($set on investments.<i>.<f>)
LotsModified(orig, invs) ==
  \E i \in 1..Len(invs) :
    LET o == IndexOfId(orig, invs[i].id)
    IN o # 0 /\ invs[i] # orig[o]

\* the stored array after the save: the pulled sub-documents are gone, a
\* loaded one gets its modified fields, the pushed ones are appended; what
\* other requests have stored meanwhile stays
PersistLots(stored, orig, invs) ==
  LET kept == SelectSeq(stored, LAMBDA x : x.id \notin Pulled(orig, invs))
  IN [k \in 1..Len(kept) |->
        LET o == IndexOfId(orig, kept[k].id)
            i == IndexOfId(invs, kept[k].id)
        IN IF o = 0 \/ i = 0 THEN kept[k]
           ELSE PersistLot(kept[k], orig[o], invs[i])]
       \o Pushed(orig, invs)

\* the version key after the save: $push and $pull increment __v
NextVersion(stored, orig, doc) ==
  IF Len(Pushed(orig.investments, doc.investments)) > 0
       \/ Pulled(orig.investments, doc.investments) # {}
  THEN stored.version + 1 ELSE stored.version

\* a $set inside the array is sent with the loaded __v as a condition: the
\* save throws VersionError when the stored array has been pushed to or
\* pulled from since loading
VersionConflict(stored, orig, doc) ==
  LotsModified(orig.investments, doc.investments) /\ stored.version # orig.version

\* document.save() of a loaded document: the paths modified since loading
\* are written onto the stored document, the others are left as stored.
Persist(stored, orig, doc) ==
  [stored EXCEPT
     !.isDefault = IF doc.isDefault # orig.isDefault THEN doc.isDefault ELSE @,
     !.investments = PersistLots(@, orig.investments, doc.investments),
     !.totalCost = IF doc.totalCost # orig.totalCost THEN doc.totalCost ELSE @,
     !.totalValue = IF doc.totalValue # orig.totalValue
                    THEN doc.totalValue ELSE @,
     !.updatedAt = IF doc.updatedAt # orig.updatedAt THEN doc.updatedAt ELSE @,
     !.version = NextVersion(stored, orig, doc)]

-----------------------------------------------------------------------------
(* Requests *)

Symbols == {"X", "Y"}

NoBody == [name |-> "", isDefault |-> FALSE, symbol |-> "",
           shares |-> Undef, purchasePrice |-> Undef, purchaseDate |-> Undef,
           year |-> Undef]

NoQuotes == [s \in Symbols |-> Undef]

\* the data of a capital-gains response
NoOut == [year |-> Undef, shortTermGains |-> 0, longTermGains |-> 0,
          totalGains |-> 0, investments |-> <<>>]

\* prevDefault: the owner's default portfolio when the handler read the
\* collection (0 if none); evalAt: the clock reading the handler took
\* opportunities: investmentsWithLosses of a tax-loss-harvesting request;
\* oracle: the request has called openai.chat.completions.create;
\* k: the index in syms of the symbol whose quote a refresh awaits;
\* doc: the loaded document as the handler holds it and, while a save is in
\* flight, as the save sends it
IdleReq == [pc |-> "idle", kind |-> "none", user |-> "", pid |-> 0,
            lotId |-> 0, body |-> NoBody, orig |-> NoDoc, doc |-> NoDoc,
            prevDefault |-> 0, syms |-> <<>>, quotes |-> NoQuotes,
            failed |-> {}, status |-> 0, evalAt |-> 0, out |-> NoOut,
            opportunities |-> <<>>, oracle |-> FALSE, k |-> 0]

\* a handler may start in a slot that holds no request in flight
Free(r) == reqs[r].pc \in {"idle", "done"}

\* res.status(code).json(...): the handler is over, its documents are dropped
Respond(req, code) ==
  [req EXCEPT !.pc = "done", !.status = code, !.orig = NoDoc, !.doc = NoDoc,
              !.syms = <<>>, !.k = 0]

\* a fresh request of the given kind
NewReq(kind, u, pid, lotId, body) ==
  [IdleReq EXCEPT !.kind = kind, !.user = u, !.pid = pid, !.lotId = lotId,
                  !.body = body]

Tick ==
  /\ now < MaxClock
  /\ now' = now + 1
  /\ UNCHANGED <<db, nextPid, nextLotId, reqs>>

-----------------------------------------------------------------------------
(* POST /api/portfolio : create portfolio *)

\* names by what the validators make of them: empty, acceptable, too long
Names == {"", "ok", "long"}

\* check('name').not().isEmpty()
NameGiven(name) == name # ""

\* PortfolioSchema name: maxlength 50
NameValid(name) == name # "long"

CreateBodies == {[NoBody EXCEPT !.name = n, !.isDefault = d] :
                   n \in Names, d \in BOOLEAN}

\* Portfolio.findOne({ user: u, isDefault: true }): the first match, 0 if none
FindDefault(u) ==
  LET hits == {p \in PIds : db[p].exists /\ db[p].user = u /\ db[p].isDefault}
  IN IF hits = {} THEN 0 ELSE CHOOSE p \in hits : \A q \in hits : p <= q

\* creations that passed validation and have not yet inserted
PendingCreates ==
  Cardinality({s \in Slots : reqs[s].pc \in {"create_clear", "create_save"}})

\* new Portfolio({ user, investments: [], isDefault: isDefault || false })
NewPortfolio(u, isDefault) ==
  [NoDoc EXCEPT !.exists = TRUE, !.user = u, !.isDefault = isDefault]

\* portfolio.save() of the new document is called: a name over the schema's
\* maxlength rejects the save before anything is sent (caught, 500);
\* otherwise the pre('save') hook stamps the document with the clock of the
\* call and the insert is in flight
CallCreateSave(req) ==
  LET rq == [req EXCEPT !.pid = 0, !.orig = NoDoc, !.doc = NoDoc]
  IN IF NameValid(req.body.name)
     THEN [rq EXCEPT !.pc = "create_save",
                     !.doc = PreSave(NewPortfolio(req.user, req.body.isDefault),
                                     now)]
     ELSE Respond(rq, 500)

\* the request arrives; with isDefault the owner's default portfolio is
\* looked up and, if there is one, its flag is cleared and its save called
CreateBegin(r, u, body) ==
  /\ Free(r)
  /\ nextPid + PendingCreates <= MaxPortfolios
  /\ LET req == NewReq("create", u, 0, 0, body)
         ex == FindDefault(u)
     IN reqs' = [reqs EXCEPT ![r] =
          IF ~NameGiven(body.name) THEN Respond(req, 400)
          ELSE IF body.isDefault /\ ex # 0
          THEN [req EXCEPT !.pc = "create_clear", !.pid = ex,
                           !.prevDefault = ex,
                           !.orig = Hydrate(db[ex]),
                           !.doc = PreSave([Hydrate(db[ex]) EXCEPT
                                              !.isDefault = FALSE], now)]
          ELSE CallCreateSave(req)]
  /\ UNCHANGED <<db, nextPid, nextLotId, now>>

\* existingDefault.save() lands (a document deleted meanwhile makes it
\* throw: 500); then the new portfolio is built and its save called
CreateClear(r) ==
  LET req == reqs[r]
  IN /\ req.pc = "create_clear"
     /\ IF db[req.pid].exists
        THEN /\ db' = [db EXCEPT ![req.pid] = Persist(@, req.orig, req.doc)]
             /\ reqs' = [reqs EXCEPT ![r] = CallCreateSave(req)]
        ELSE /\ reqs' = [reqs EXCEPT ![r] = Respond(req, 500)]
             /\ UNCHANGED db
     /\ UNCHANGED <<nextPid, nextLotId, now>>

\* portfolio.save() lands: the document is inserted; res.status(201)
CreateSave(r) ==
  LET req == reqs[r]
  IN /\ req.pc = "create_save"
     /\ db' = [db EXCEPT ![nextPid] = req.doc]
     /\ nextPid' = nextPid + 1
     /\ reqs' = [reqs EXCEPT ![r] = Respond([req EXCEPT !.pid = nextPid], 201)]
     /\ UNCHANGED <<nextLotId, now>>

-----------------------------------------------------------------------------
(* GET /api/portfolio/:id : one portfolio *)

GetOne(r, u, pid) ==
  /\ Free(r)
  /\ LET req == NewReq("get", u, pid, 0, NoBody)
         portfolio == FindOne(pid, u)
     IN reqs' = [reqs EXCEPT ![r] =
          IF ~portfolio.exists THEN Respond(req, 404)
          ELSE Respond(req, 200)]
  /\ UNCHANGED <<db, nextPid, nextLotId, now>>

-----------------------------------------------------------------------------
(* PUT /api/portfolio/:id : update portfolio *)

\* portfolio.isDefault = isDefault || portfolio.isDefault
NewDefaultFlag(isDefault, current) == isDefault \/ current

\* portfolio.name = name; ...; portfolio.save() is called: a name over the
\* maxlength rejects the save before anything is sent (caught, 500);
\* otherwise the hook stamps the document and the update is in flight
CallUpdateSave(req) ==
  IF NameValid(req.body.name)
  THEN [req EXCEPT !.pc = "update_save",
                   !.doc = PreSave([req.doc EXCEPT !.isDefault =
                                      NewDefaultFlag(req.body.isDefault,
                                                     req.doc.isDefault)], now)]
  ELSE Respond(req, 500)

UpdateBegin(r, u, pid, body) ==
  /\ Free(r)
  /\ LET req == NewReq("update", u, pid, 0, body)
         portfolio == FindOne(pid, u)
         found == [req EXCEPT !.prevDefault = FindDefault(u),
                              !.orig = portfolio, !.doc = portfolio]
     IN reqs' = [reqs EXCEPT ![r] =
          IF ~NameGiven(body.name) THEN Respond(req, 400)
          ELSE IF ~portfolio.exists THEN Respond(req, 404)
          ELSE IF body.isDefault /\ ~portfolio.isDefault
          THEN [found EXCEPT !.pc = "update_many"]
          ELSE CallUpdateSave(found)]
  /\ UNCHANGED <<db, nextPid, nextLotId, now>>

\* faulty variant: the other default portfolios are not cleared
ClearNoDefaults(u, pid) == db

\* Portfolio.updateMany({ user, isDefault: true, _id: { $ne: id } },
\*                      { $set: { isDefault: false } })
ClearOtherDefaults(u, pid) ==
  [p \in PIds |->
     IF db[p].exists /\ db[p].user = u /\ db[p].isDefault /\ p # pid
     THEN [db[p] EXCEPT !.isDefault = FALSE] ELSE db[p]]

\* the updateMany lands; then the fields are set and the save called
UpdateMany(r) ==
  LET req == reqs[r]
  IN /\ req.pc = "update_many"
     /\ db' = ClearOtherDefaults(req.user, req.pid)
     /\ reqs' = [reqs EXCEPT ![r] = CallUpdateSave(req)]
     /\ UNCHANGED <<nextPid, nextLotId, now>>

\* portfolio.save() lands: the modified paths are written; res.status(200).
\* A document deleted meanwhile makes the save throw (caught, 500).
UpdateSave(r) ==
  LET req == reqs[r]
  IN /\ req.pc = "update_save"
     /\ IF db[req.pid].exists
        THEN /\ db' = [db EXCEPT ![req.pid] = Persist(@, req.orig, req.doc)]
             /\ reqs' = [reqs EXCEPT ![r] = Respond(req, 200)]
        ELSE /\ reqs' = [reqs EXCEPT ![r] = Respond(req, 500)]
             /\ UNCHANGED db
     /\ UNCHANGED <<nextPid, nextLotId, now>>

-----------------------------------------------------------------------------
(* DELETE /api/portfolio/:id : delete portfolio *)

DeleteBegin(r, u, pid) ==
  /\ Free(r)
  /\ LET req == NewReq("delete", u, pid, 0, NoBody)
         portfolio == FindOne(pid, u)
     IN reqs' = [reqs EXCEPT ![r] =
          IF ~portfolio.exists THEN Respond(req, 404)
          ELSE [req EXCEPT !.pc = "delete_one", !.orig = portfolio,
                           !.doc = portfolio]]
  /\ UNCHANGED <<db, nextPid, nextLotId, now>>

\* await portfolio.deleteOne(); res.status(200)
DeleteOne(r) ==
  LET req == reqs[r]
  IN /\ req.pc = "delete_one"
     /\ db' = [db EXCEPT ![req.pid] = NoDoc]
     /\ reqs' = [reqs EXCEPT ![r] = Respond(req, 200)]
     /\ UNCHANGED <<nextPid, nextLotId, now>>

-----------------------------------------------------------------------------
(* The quote source: yahoo.quote(symbol) *)

QuotePrices == {-1, 0, 5}

\* the request throws, or resolves with a quote whose regularMarketPrice is
\* missing, or resolves with a price
QuoteOutcomes ==
  {[ok |-> FALSE, price |-> Undef], [ok |-> TRUE, price |-> Undef]}
    \cup {[ok |-> TRUE, price |-> Num(n)] : n \in QuotePrices}

-----------------------------------------------------------------------------
(* POST /api/portfolio/:id/investment : add investment *)

AddBody(sy, sh, pr, d) ==
  [NoBody EXCEPT !.symbol = sy, !.shares = sh, !.purchasePrice = pr,
                 !.purchaseDate = d]

AddBodies ==
  {AddBody("x", Num(2), Num(3), Undef),
   AddBody("Y", Num(1), Num(2), DateStr(0)),
   AddBody("Y", Num(-1), Num(3), Undef),
   AddBody("x", Num(2), Num(-1), Undef),
   AddBody("x", BadStr, Num(3), Undef),
   AddBody("", Num(2), Num(3), Undef)}

\* parseFloat of a value that passed isNumeric (a number or its string)
ParseFloat(x) == x.v

\* faulty variant: any id finds the first sub-document
IndexOfLotAny(doc, lotId) == IF Len(doc.investments) > 0 THEN 1 ELSE 0

\* portfolio.investments.id(investmentId): index of the sub-document, 0 if none
IndexOfLot(doc, lotId) == IndexOfId(doc.investments, lotId)

\* every sub-document passes the schema validators
DocValid(doc) == \A i \in 1..Len(doc.investments) : LotValid(doc.investments[i])

\* portfolio.save() of a loaded document is called: a validation error
\* rejects the save before anything is sent (caught, 500); otherwise the
\* pre('save') hook computes the totals and stamps the document with the
\* clock of the call, and the update is in flight
CallSave(req, doc, pc) ==
  IF DocValid(doc) THEN [req EXCEPT !.pc = pc, !.doc = PreSave(doc, now)]
  ELSE Respond(req, 500)

\* the save of a loaded document lands, then res.status(200); a version
\* error, or a document deleted meanwhile, makes the save throw: caught and
\* answered 500 with nothing written
SaveLoaded(r, req) ==
  IF db[req.pid].exists /\ ~VersionConflict(db[req.pid], req.orig, req.doc)
  THEN /\ db' = [db EXCEPT ![req.pid] = Persist(@, req.orig, req.doc)]
       /\ reqs' = [reqs EXCEPT ![r] = Respond(req, 200)]
  ELSE /\ reqs' = [reqs EXCEPT ![r] = Respond(req, 500)]
       /\ UNCHANGED db

AddBegin(r, u, pid, body) ==
  /\ Free(r)
  /\ nextLotId <= MaxLotIds
  /\ LET req == NewReq("add", u, pid, 0, body)
         portfolio == FindOne(pid, u)
     IN reqs' = [reqs EXCEPT ![r] =
          IF \/ body.symbol = ""
             \/ ~IsNumeric(body.shares)
             \/ ~IsNumeric(body.purchasePrice)
          THEN Respond(req, 400)
          ELSE IF ~portfolio.exists THEN Respond(req, 404)
          ELSE [req EXCEPT !.pc = "add_quote", !.orig = portfolio,
                           !.doc = portfolio]]
  /\ UNCHANGED <<db, nextPid, nextLotId, now>>

\* the schema's cast of a value to Number: a numeric string becomes its number
CastNumber(x) == IF x.t = "numstr" THEN Num(x.v) ELSE x

\* let currentPrice = purchasePrice; try { currentPrice = quote.regularMarketPrice }
AddCurrentPrice(body, q) == IF q.ok THEN q.price ELSE body.purchasePrice

\* the sub-document pushed onto portfolio.investments; purchaseDate:
\* purchaseDate || new Date(), cast by the schema
NewLot(id, body, q, clock) ==
  ApplyLotDefaults(
    [id |-> id,
     symbol |-> ToUpperCase(body.symbol),
     shares |-> ParseFloat(body.shares),
     purchasePrice |-> ParseFloat(body.purchasePrice),
     purchaseDate |-> IF Truthy(body.purchaseDate)
                      THEN CastDate(body.purchaseDate) ELSE clock,
     currentPrice |-> CastNumber(AddCurrentPrice(body, q)),
     lastUpdated |-> clock])

\* the quote comes back (or fails): the lot is pushed with the clock of this
\* moment and the save called
AddQuote(r, q) ==
  LET req == reqs[r]
      sym == ToUpperCase(req.body.symbol)
      doc == [req.doc EXCEPT !.investments =
                Append(@, NewLot(nextLotId, req.body, q, now))]
      rq == [req EXCEPT !.lotId = nextLotId,
                        !.quotes = [@ EXCEPT ![sym] = IF q.ok THEN q.price ELSE Undef],
                        !.failed = IF q.ok THEN {} ELSE {sym}]
  IN /\ req.pc = "add_quote"
     /\ reqs' = [reqs EXCEPT ![r] = CallSave(rq, doc, "add_save")]
     /\ nextLotId' = IF DocValid(doc) THEN nextLotId + 1 ELSE nextLotId
     /\ UNCHANGED <<db, nextPid, now>>

\* the save lands
AddSave(r) ==
  /\ reqs[r].pc = "add_save"
  /\ SaveLoaded(r, reqs[r])
  /\ UNCHANGED <<nextPid, nextLotId, now>>

-----------------------------------------------------------------------------
(* PUT /api/portfolio/:id/investment/:investmentId : update investment *)

LotIds == 1..MaxLotIds

UpdLotBody(sh, pr, d) ==
  [NoBody EXCEPT !.shares = sh, !.purchasePrice = pr, !.purchaseDate = d]

UpdLotBodies ==
  {UpdLotBody(Undef, Undef, Undef),
   UpdLotBody(Num(1), Num(1), DateStr(0)),
   UpdLotBody(Num(0), Undef, Undef),
   UpdLotBody(Num(-1), Undef, Undef),
   UpdLotBody(Undef, Num(-1), Undef),
   UpdLotBody(Undef, BadStr, Undef)}

\* check(...).optional().isNumeric()
OptionalNumeric(x) == x.t = "undef" \/ IsNumeric(x)

UpdLotBegin(r, u, pid, lotId, body) ==
  /\ Free(r)
  /\ LET req == NewReq("updlot", u, pid, lotId, body)
         portfolio == FindOne(pid, u)
     IN reqs' = [reqs EXCEPT ![r] =
          IF \/ ~OptionalNumeric(body.shares)
             \/ ~OptionalNumeric(body.purchasePrice)
          THEN Respond(req, 400)
          ELSE IF ~portfolio.exists THEN Respond(req, 404)
          ELSE IF IndexOfLot(portfolio, lotId) = 0
          THEN Respond([req EXCEPT !.orig = portfolio, !.doc = portfolio], 404)
          ELSE [req EXCEPT !.pc = "updlot_quote", !.orig = portfolio,
                           !.doc = portfolio]]
  /\ UNCHANGED <<db, nextPid, nextLotId, now>>

\* if (shares) investment.shares = parseFloat(shares); ... if (purchaseDate)
\* investment.purchaseDate = purchaseDate, cast by the schema
ApplyLotFields(inv, body) ==
  [inv EXCEPT
     !.shares = IF Truthy(body.shares) THEN ParseFloat(body.shares) ELSE @,
     !.purchasePrice = IF Truthy(body.purchasePrice)
                       THEN ParseFloat(body.purchasePrice) ELSE @,
     !.purchaseDate = IF Truthy(body.purchaseDate)
                      THEN CastDate(body.purchaseDate) ELSE @]

\* try { investment.currentPrice = quote.regularMarketPrice;
\*       investment.lastUpdated = new Date() } catch {}
ApplyLotQuote(inv, q, clock) ==
  IF q.ok THEN [inv EXCEPT !.currentPrice = q.price, !.lastUpdated = clock]
  ELSE inv

\* faulty variant: the quote is applied to every lot of the lot's symbol
UpdLotQuoteWholeSymbol(r, q) ==
  LET req == reqs[r]
      i == IndexOfLot(req.doc, req.lotId)
      sym == req.doc.investments[i].symbol
      doc == [req.doc EXCEPT !.investments =
                [k \in 1..Len(@) |->
                   IF k = i THEN ApplyLotQuote(ApplyLotFields(@[k], req.body), q, now)
                   ELSE IF @[k].symbol = sym THEN ApplyLotQuote(@[k], q, now)
                   ELSE @[k]]]
      rq == [req EXCEPT !.quotes = [@ EXCEPT ![sym] = IF q.ok THEN q.price ELSE Undef],
                        !.failed = IF q.ok THEN {} ELSE {sym}]
  IN /\ req.pc = "updlot_quote"
     /\ reqs' = [reqs EXCEPT ![r] = CallSave(rq, doc, "updlot_save")]
     /\ UNCHANGED <<db, nextPid, nextLotId, now>>

\* the quote comes back (or fails): the fields set before the quote and the
\* quoted price are on the lot, stamped with the clock of this moment, and
\* the save is called
UpdLotQuote(r, q) ==
  LET req == reqs[r]
      i == IndexOfLot(req.doc, req.lotId)
      sym == req.doc.investments[i].symbol
      doc == [req.doc EXCEPT !.investments[i] =
                ApplyLotQuote(ApplyLotFields(@, req.body), q, now)]
      rq == [req EXCEPT !.quotes = [@ EXCEPT ![sym] = IF q.ok THEN q.price ELSE Undef],
                        !.failed = IF q.ok THEN {} ELSE {sym}]
  IN /\ req.pc = "updlot_quote"
     /\ reqs' = [reqs EXCEPT ![r] = CallSave(rq, doc, "updlot_save")]
     /\ UNCHANGED <<db, nextPid, nextLotId, now>>

\* the save lands
UpdLotSave(r) ==
  /\ reqs[r].pc = "updlot_save"
  /\ SaveLoaded(r, reqs[r])
  /\ UNCHANGED <<nextPid, nextLotId, now>>

-----------------------------------------------------------------------------
(* DELETE /api/portfolio/:id/investment/:investmentId : remove investment *)

\* portfolio.investments.pull(investmentId)
Pull(invs, lotId) == SelectSeq(invs, LAMBDA inv : inv.id # lotId)

\* the request arrives and the portfolio is looked up; the lot is pulled
\* and the save called
RemoveBegin(r, u, pid, lotId) ==
  /\ Free(r)
  /\ LET req == NewReq("remove", u, pid, lotId, NoBody)
         portfolio == FindOne(pid, u)
         found == [req EXCEPT !.orig = portfolio, !.doc = portfolio]
     IN reqs' = [reqs EXCEPT ![r] =
          IF ~portfolio.exists THEN Respond(req, 404)
          ELSE IF IndexOfLot(portfolio, lotId) = 0 THEN Respond(found, 404)
          ELSE CallSave(found,
                        [portfolio EXCEPT !.investments = Pull(@, lotId)],
                        "remove_save")]
  /\ UNCHANGED <<db, nextPid, nextLotId, now>>

\* the save lands
RemoveFinish(r) ==
  /\ reqs[r].pc = "remove_save"
  /\ SaveLoaded(r, reqs[r])
  /\ UNCHANGED <<nextPid, nextLotId, now>>

-----------------------------------------------------------------------------
(* POST /api/portfolio/:id/refresh : refresh prices *)

RECURSIVE Unique(_, _, _)
\* [...new Set(portfolio.investments.map(inv => inv.symbol))]: the distinct
\* symbols in order of first occurrence
Unique(invs, i, acc) ==
  IF i > Len(invs) THEN acc
  ELSE Unique(invs, i + 1,
              IF \E k \in 1..Len(acc) : acc[k] = invs[i].symbol
              THEN acc ELSE Append(acc, invs[i].symbol))

RefreshBegin(r, u, pid) ==
  /\ Free(r)
  /\ LET req == NewReq("refresh", u, pid, 0, NoBody)
         portfolio == FindOne(pid, u)
     IN reqs' = [reqs EXCEPT ![r] =
          IF ~portfolio.exists THEN Respond(req, 404)
          ELSE IF Len(portfolio.investments) = 0
          THEN Respond([req EXCEPT !.orig = portfolio, !.doc = portfolio], 200)
          ELSE [req EXCEPT !.pc = "refresh_quote", !.orig = portfolio,
                           !.doc = portfolio,
                           !.syms = Unique(portfolio.investments, 1, <<>>),
                           !.k = 1]]
  /\ UNCHANGED <<db, nextPid, nextLotId, now>>

RECURSIVE FetchQuotesUntilFailure(_, _, _, _)
\* faulty variant: the first failed quote ends the loop
FetchQuotesUntilFailure(syms, k, outcome, quotes) ==
  IF k > Len(syms) \/ ~outcome[syms[k]].ok THEN quotes
  ELSE FetchQuotesUntilFailure(syms, k + 1, outcome,
                   [quotes EXCEPT ![syms[k]] = outcome[syms[k]].price])

\* try { quotes[symbol] = (await yahoo.quote(symbol)).regularMarketPrice }
\* catch {}
FetchQuote(quotes, sym, q) ==
  IF q.ok THEN [quotes EXCEPT ![sym] = q.price] ELSE quotes

RECURSIVE FetchQuotes(_, _, _, _)
\* for (const symbol of symbols) { ... }: the quotes after the whole loop
FetchQuotes(syms, k, outcome, quotes) ==
  IF k > Len(syms) THEN quotes
  ELSE FetchQuotes(syms, k + 1, outcome,
                   FetchQuote(quotes, syms[k], outcome[syms[k]]))

\* faulty variant: a lot without a quote falls back to its purchase price
RefreshLotFallback(inv, quotes, clock) ==
  IF Truthy(quotes[inv.symbol])
  THEN [inv EXCEPT !.currentPrice = quotes[inv.symbol], !.lastUpdated = clock]
  ELSE [inv EXCEPT !.currentPrice = Num(inv.purchasePrice)]

\* faulty variant: only a positive quote is applied
RefreshLotPositiveOnly(inv, quotes, clock) ==
  IF quotes[inv.symbol].t = "num" /\ quotes[inv.symbol].v > 0
  THEN [inv EXCEPT !.currentPrice = quotes[inv.symbol], !.lastUpdated = clock]
  ELSE inv

\* faulty variant: the quoted price also replaces the purchase price
RefreshLotRebase(inv, quotes, clock) ==
  IF Truthy(quotes[inv.symbol])
  THEN [inv EXCEPT !.currentPrice = quotes[inv.symbol], !.lastUpdated = clock,
                   !.purchasePrice = quotes[inv.symbol].v]
  ELSE inv

\* if (quotes[investment.symbol]) { investment.currentPrice = ...;
\*                                  investment.lastUpdated = new Date() }
RefreshLot(inv, quotes, clock) ==
  IF Truthy(quotes[inv.symbol])
  THEN [inv EXCEPT !.currentPrice = quotes[inv.symbol], !.lastUpdated = clock]
  ELSE inv

\* for (const investment of portfolio.investments) { ... }
RefreshLots(doc, quotes, clock) ==
  [doc EXCEPT !.investments =
     [i \in 1..Len(@) |-> RefreshLot(@[i], quotes, clock)]]

\* the document the refresh saves when the symbols are quoted in the order
\* of syms with the given outcomes
RefreshResult(doc, syms, outcome, clock) ==
  PreSave(RefreshLots(doc, FetchQuotes(syms, 1, outcome, NoQuotes), clock),
          clock)

\* the quote of the k-th symbol comes back (or fails); the next symbol is
\* asked for or, after the last one, the lots are updated with the clock of
\* this moment and the save called
RefreshQuote(r, q) ==
  LET req == reqs[r]
      sym == req.syms[req.k]
      rq == [req EXCEPT !.quotes = FetchQuote(@, sym, q),
                        !.failed = IF q.ok THEN @ ELSE @ \cup {sym},
                        !.k = @ + 1]
  IN /\ req.pc = "refresh_quote"
     /\ reqs' = [reqs EXCEPT ![r] =
          IF req.k < Len(req.syms) THEN rq
          ELSE CallSave(rq, RefreshLots(req.doc, rq.quotes, now),
                        "refresh_save")]
     /\ UNCHANGED <<db, nextPid, nextLotId, now>>

\* the save lands
RefreshSave(r) ==
  /\ reqs[r].pc = "refresh_save"
  /\ SaveLoaded(r, reqs[r])
  /\ UNCHANGED <<nextPid, nextLotId, now>>

-----------------------------------------------------------------------------
(* POST /api/tax/calculate-gains : capital gains *)

\* isLongTerm: holdingPeriod > 365
LongTermDays == 365
\* check('year').isInt({ min: 2000, max: 2100 })
MinYear == 2000
MaxYear == 2100

\* Instant 0 of the model is 2023-01-01T00:00 server time; 2024 is a leap year.
Y2024 == 365 * TicksPerDay
Y2025 == Y2024 + 366 * TicksPerDay
Y2026 == Y2025 + 365 * TicksPerDay

\* new Date(inv.purchaseDate).getFullYear(): the year whose start is the last
\* at or before t, one of the three around t counted in years of 365 days
GetFullYear(t) ==
  LET g == 2023 + t \div (365 * TicksPerDay)
  IN CHOOSE y \in (g - 1)..(g + 1) : YearStart(y) <= t /\ t < YearStart(y + 1)

\* isInt({ min, max }) on the request's year
YearValid(y) == IsNumeric(y) /\ MinYear <= y.v /\ y.v <= MaxYear

\* faulty variant: the holding period is truncated to whole days
HoldingPeriodWholeDays(currentDate, purchaseDate) ==
  [num |-> (currentDate - purchaseDate) \div TicksPerDay, den |-> 1]

\* (currentDate - purchaseDate) / (1000 * 60 * 60 * 24): a quotient, not
\* rounded, kept as numerator and denominator
HoldingPeriod(currentDate, purchaseDate) ==
  [num |-> currentDate - purchaseDate, den |-> TicksPerDay]

\* faulty variant: >= in place of >
QuotientGreaterEq(q, n) == q.num >= n * q.den

\* quotient > n
QuotientGreater(q, n) == q.num > n * q.den

\* holdingPeriod > 365
IsLongTerm(currentDate, purchaseDate) ==
  QuotientGreater(HoldingPeriod(currentDate, purchaseDate), LongTermDays)

\* (inv.currentPrice - inv.purchasePrice) * inv.shares
UnrealizedGain(inv) == (inv.currentPrice.v - inv.purchasePrice) * inv.shares

\* faulty variant: a lot bought in the target year itself is left out
RelevantInvestmentsBefore(invs, year) ==
  SelectSeq(invs, LAMBDA inv : GetFullYear(inv.purchaseDate) < year)

\* faulty variant: no lot is filtered out
RelevantInvestmentsAll(invs, year) == invs

\* portfolio.investments.filter(inv => purchaseYear <= year)
RelevantInvestments(invs, year) ==
  SelectSeq(invs, LAMBDA inv : GetFullYear(inv.purchaseDate) <= year)

\* one element of investmentsData
GainsEntry(inv, currentDate) ==
  [symbol |-> inv.symbol, shares |-> inv.shares,
   purchasePrice |-> inv.purchasePrice, purchaseDate |-> inv.purchaseDate,
   currentPrice |-> inv.currentPrice,
   unrealizedGain |-> UnrealizedGain(inv),
   isLongTerm |-> IsLongTerm(currentDate, inv.purchaseDate)]

InvestmentsData(invs, currentDate) ==
  [i \in 1..Len(invs) |-> GainsEntry(invs[i], currentDate)]

\* entry.unrealizedGain, for the reduce of the two sums
GainOf(e) == e.unrealizedGain

\* the terms of the two gains reduces
GainTerms(data) == [k \in 1..Len(data) |-> GainOf(data[k])]

\* investmentsData.filter(inv => !inv.isLongTerm).reduce(...)
ShortTermGains(data) ==
  Reduce(GainTerms(SelectSeq(data, LAMBDA e : ~e.isLongTerm)), 1, 0)

\* faulty variant: the long-term sum runs over every entry
LongTermGainsAll(data) == Reduce(GainTerms(data), 1, 0)

\* investmentsData.filter(inv => inv.isLongTerm).reduce(...)
LongTermGains(data) ==
  Reduce(GainTerms(SelectSeq(data, LAMBDA e : e.isLongTerm)), 1, 0)

\* faulty variant: the holding period is measured at the end of the target
\* year
GainsDataAtYearEnd(portfolio, year, currentDate) ==
  LET relevant == RelevantInvestments(portfolio.investments, year.v)
      yearEnd == IF year.v <= 2023 THEN Y2024 ELSE Y2025
      data == InvestmentsData(relevant, yearEnd)
  IN IF Len(relevant) = 0
     THEN [NoOut EXCEPT !.year = year]
     ELSE [year |-> year,
           shortTermGains |-> ShortTermGains(data),
           longTermGains |-> LongTermGains(data),
           totalGains |-> ShortTermGains(data) + LongTermGains(data),
           investments |-> data]

\* the data of the response
GainsData(portfolio, year, currentDate) ==
  LET relevant == RelevantInvestments(portfolio.investments, year.v)
      data == InvestmentsData(relevant, currentDate)
  IN IF Len(relevant) = 0
     THEN [NoOut EXCEPT !.year = year]
     ELSE [year |-> year,
           shortTermGains |-> ShortTermGains(data),
           longTermGains |-> LongTermGains(data),
           totalGains |-> ShortTermGains(data) + LongTermGains(data),
           investments |-> data]

\* faulty variant: the handler stores the total of the gains it computed as
\* the portfolio's value
CalculateGainsStoring(r, u, pid, year) ==
  /\ Free(r)
  /\ LET req == [NewReq("gains", u, pid, 0, [NoBody EXCEPT !.year = year])
                   EXCEPT !.evalAt = now]
         portfolio == FindOne(pid, u)
         found == YearValid(year) /\ portfolio.exists
     IN /\ reqs' = [reqs EXCEPT ![r] =
             IF ~YearValid(year) THEN Respond(req, 400)
             ELSE IF ~portfolio.exists THEN Respond(req, 404)
             ELSE Respond([req EXCEPT !.out = GainsData(portfolio, year, now)], 200)]
        /\ db' = IF found
                 THEN [db EXCEPT ![pid].totalValue =
                         GainsData(portfolio, year, now).totalGains]
                 ELSE db
  /\ UNCHANGED <<nextPid, nextLotId, now>>

\* faulty variant: the handler answers a user again with the gains it last
\* computed for that user on this connection, whatever the portfolio and year
CalculateGainsCached(r, u, pid, year) ==
  /\ Free(r)
  /\ LET req == [NewReq("gains", u, pid, 0, [NoBody EXCEPT !.year = year])
                   EXCEPT !.evalAt = now]
         portfolio == FindOne(pid, u)
         last == reqs[r]
         cached == /\ last.pc = "done" /\ last.kind = "gains"
                   /\ last.status = 200 /\ last.user = u
     IN reqs' = [reqs EXCEPT ![r] =
          IF ~YearValid(year) THEN Respond(req, 400)
          ELSE IF ~portfolio.exists THEN Respond(req, 404)
          ELSE IF cached THEN Respond([req EXCEPT !.out = last.out], 200)
          ELSE Respond([req EXCEPT !.out = GainsData(portfolio, year, now)], 200)]
  /\ UNCHANGED <<db, nextPid, nextLotId, now>>

CalculateGains(r, u, pid, year) ==
  /\ Free(r)
  /\ LET req == [NewReq("gains", u, pid, 0, [NoBody EXCEPT !.year = year])
                   EXCEPT !.evalAt = now]
         portfolio == FindOne(pid, u)
     IN reqs' = [reqs EXCEPT ![r] =
          IF ~YearValid(year) THEN Respond(req, 400)
          ELSE IF ~portfolio.exists THEN Respond(req, 404)
          ELSE Respond([req EXCEPT !.out = GainsData(portfolio, year, now)], 200)]
  /\ UNCHANGED <<db, nextPid, nextLotId, now>>

-----------------------------------------------------------------------------
(* POST /api/tax/tax-loss-harvesting *)

\* inv.currentPrice < inv.purchasePrice
IsLoss(inv) == inv.currentPrice.t = "num" /\ inv.currentPrice.v < inv.purchasePrice

\* (inv.purchasePrice - inv.currentPrice) * inv.shares
TotalLoss(inv) == (inv.purchasePrice - inv.currentPrice.v) * inv.shares

\* one element of investmentsWithLosses
LossEntry(inv) ==
  [symbol |-> inv.symbol, shares |-> inv.shares,
   purchasePrice |-> inv.purchasePrice, currentPrice |-> inv.currentPrice,
   totalLoss |-> TotalLoss(inv), purchaseDate |-> inv.purchaseDate]

\* portfolio.investments.filter(...).map(...)
LossEntries(invs) ==
  LET losing == SelectSeq(invs, IsLoss)
  IN [k \in 1..Len(losing) |-> LossEntry(losing[k])]

\* faulty variant: an entry goes in front of the entries of equal loss
InsertBeforeTies(sorted, e) ==
  LET before == SelectSeq(sorted, LAMBDA a : e.totalLoss - a.totalLoss < 0)
      after == SelectSeq(sorted, LAMBDA a : e.totalLoss - a.totalLoss >= 0)
  IN before \o <<e>> \o after

\* one step of the stable sort with comparator (a, b) => b.totalLoss -
\* a.totalLoss: e, which came after every element of sorted in the input,
\* goes behind the elements a that do not compare after it (compare(a, e) <= 0)
InsertByLoss(sorted, e) ==
  LET before == SelectSeq(sorted, LAMBDA a : e.totalLoss - a.totalLoss <= 0)
      after == SelectSeq(sorted, LAMBDA a : e.totalLoss - a.totalLoss > 0)
  IN before \o <<e>> \o after

RECURSIVE SortByLoss(_, _, _)
\* .sort((a, b) => b.totalLoss - a.totalLoss): Array.prototype.sort is
\* stable; the entries from position i on are inserted into sorted in turn
SortByLoss(entries, i, sorted) ==
  IF i > Len(entries) THEN sorted
  ELSE SortByLoss(entries, i + 1, InsertByLoss(sorted, entries[i]))

\* const investmentsWithLosses = portfolio.investments.filter().map().sort()
InvestmentsWithLosses(portfolio) ==
  SortByLoss(LossEntries(portfolio.investments), 1, <<>>)

\* investmentsWithLosses.length === 0
NoOpportunities(opps) == Len(opps) = 0

\* validation, lookup, the list of losses; the answer when the list is
\* empty, the call of the advisory oracle otherwise
HarvestBegin(r, u, pid) ==
  /\ Free(r)
  /\ LET req == NewReq("harvest", u, pid, 0, NoBody)
         portfolio == FindOne(pid, u)
         opps == InvestmentsWithLosses(portfolio)
     IN reqs' = [reqs EXCEPT ![r] =
          IF ~portfolio.exists THEN Respond(req, 404)
          ELSE IF NoOpportunities(opps) THEN Respond(req, 200)
          ELSE [req EXCEPT !.pc = "harvest_oracle", !.opportunities = opps,
                           !.oracle = TRUE]]
  /\ UNCHANGED <<db, nextPid, nextLotId, now>>

\* the completion of the oracle: parsed, or the call or JSON.parse threw
OracleOutcomes == {"json", "throw"}

\* the oracle has answered: 200 with the opportunities and the
\* recommendations, or 500 from the catch
HarvestFinish(r, outcome) ==
  LET req == reqs[r]
  IN /\ req.pc = "harvest_oracle"
     /\ reqs' = [reqs EXCEPT ![r] =
          IF outcome = "json" THEN Respond(req, 200)
          ELSE Respond([req EXCEPT !.opportunities = <<>>], 500)]
     /\ UNCHANGED <<db, nextPid, nextLotId, now>>

-----------------------------------------------------------------------------
(* Specifications *)

\* the empty collection, after the server has started
Init ==
  /\ db = [p \in PIds |-> NoDoc]
  /\ nextPid = 1
  /\ nextLotId = 1
  /\ now = 0
  /\ reqs = [s \in Slots |-> IdleReq]

\* the portfolio handlers of one request slot
Portfolios(r, users, bodies) ==
  \/ \E u \in users, b \in bodies : CreateBegin(r, u, b)
  \/ CreateClear(r)
  \/ CreateSave(r)
  \/ \E u \in users, p \in PIds, b \in bodies : UpdateBegin(r, u, p, b)
  \/ UpdateMany(r)
  \/ UpdateSave(r)

Deletes(r, users) ==
  \/ \E u \in users, p \in PIds : DeleteBegin(r, u, p)
  \/ DeleteOne(r)

\* the investment handlers of one request slot, their request bodies drawn
\* from adds and upds, the answers of the quote source from outcomes
Lots(r, users, adds, upds, outcomes) ==
  \/ \E u \in users, p \in PIds, b \in adds : AddBegin(r, u, p, b)
  \/ \E q \in outcomes : AddQuote(r, q)
  \/ AddSave(r)
  \/ \E u \in users, p \in PIds, l \in LotIds, b \in upds :
       UpdLotBegin(r, u, p, l, b)
  \/ \E q \in outcomes : UpdLotQuote(r, q)
  \/ UpdLotSave(r)
  \/ \E u \in users, p \in PIds, l \in LotIds : RemoveBegin(r, u, p, l)
  \/ RemoveFinish(r)
  \/ \E u \in users, p \in PIds : RefreshBegin(r, u, p)
  \/ \E q \in outcomes : RefreshQuote(r, q)
  \/ RefreshSave(r)

\* The whole API, one request at a time (every handler runs to its response
\* before the next starts), all within one reading of the clock.
FewAdds == {AddBody("x", Num(2), Num(3), Undef),
            AddBody("Y", Num(1), Num(2), DateStr(0)),
            AddBody("Y", Num(-1), Num(3), Undef)}
FewUpds == {UpdLotBody(Num(1), Num(1), DateStr(0))}
FewOutcomes == {[ok |-> FALSE, price |-> Undef], [ok |-> TRUE, price |-> Num(5)]}

Next ==
  \/ Portfolios(1, Users, CreateBodies)
  \/ Deletes(1, Users)
  \/ Lots(1, Users, FewAdds, FewUpds, FewOutcomes)

Spec == Init /\ [][Next]_vars

\* The investment handlers on one portfolio, one request at a time, with
\* the clock running.
NextLots ==
  \/ Lots(1, Users, AddBodies, UpdLotBodies, QuoteOutcomes)
  \/ Tick

\* one portfolio of u1 exists
InitLots ==
  /\ db = [p \in PIds |-> IF p = 1 THEN NewPortfolio("u1", FALSE) ELSE NoDoc]
  /\ nextPid = 2
  /\ nextLotId = 1
  /\ now = 0
  /\ reqs = [s \in Slots |-> IdleReq]

SpecLots == InitLots /\ [][NextLots]_vars

\* Adds and updates of lots of one portfolio by its owner, the updates
\* carrying their numbers as JSON numbers or as strings (a url-encoded body,
\* a quoted number), zero included, with the clock running.
UpdLotStringBodies ==
  {UpdLotBody(NumStr(0), Undef, Undef),
   UpdLotBody(Undef, NumStr(0), Undef),
   UpdLotBody(NumStr(1), NumStr(-1), Undef)}

NextLotUpdates ==
  \/ AddBegin(1, "u1", 1, AddBody("x", NumStr(2), NumStr(3), Undef))
  \/ \E q \in QuoteOutcomes : AddQuote(1, q)
  \/ AddSave(1)
  \/ \E l \in LotIds, b \in UpdLotBodies \cup UpdLotStringBodies :
       UpdLotBegin(1, "u1", 1, l, b)
  \/ \E q \in QuoteOutcomes : UpdLotQuote(1, q)
  \/ UpdLotSave(1)
  \/ Tick

SpecLotUpdates == InitLots /\ [][NextLotUpdates]_vars

\* concurrent create-portfolio and update-portfolio requests: the handlers
\* interleave at their awaits
NextDefault ==
  \/ \E r \in Slots : Portfolios(r, Users, CreateBodies)

SpecDefault == Init /\ [][NextDefault]_vars

\* concurrent investment requests of u1: the handlers interleave at their
\* awaits (the lookup, the quote, the save), within one reading of the clock
ConcurrentAdds == {AddBody("x", Num(2), Num(3), Undef)}

ConcurrentOutcomes == {[ok |-> TRUE, price |-> Num(5)]}

NextConcurrentLots ==
  \E r \in Slots :
    \/ \E b \in ConcurrentAdds : AddBegin(r, "u1", 1, b)
    \/ \E q \in ConcurrentOutcomes : AddQuote(r, q)
    \/ AddSave(r)
    \/ \E l \in LotIds, b \in FewUpds : UpdLotBegin(r, "u1", 1, l, b)
    \/ \E q \in ConcurrentOutcomes : UpdLotQuote(r, q)
    \/ UpdLotSave(r)
    \/ \E l \in LotIds : RemoveBegin(r, "u1", 1, l)
    \/ RemoveFinish(r)
    \/ RefreshBegin(r, "u1", 1)
    \/ \E q \in FewOutcomes : RefreshQuote(r, q)
    \/ RefreshSave(r)

SpecConcurrentLots == InitLots /\ [][NextConcurrentLots]_vars

\* The tax handlers on a portfolio of u1 holding up to MaxTaxLots lots, at an
\* instant around the lots' first anniversaries.
MaxTaxLots == 2

HalfDay == TicksPerDay \div 2

\* 2023-01-01 00:00, 2023-01-01 12:00, 2024-01-01 00:00
PurchaseInstants == {0, HalfDay, Y2024}

EvalInstants ==
  {LongTermDays * TicksPerDay - 1, LongTermDays * TicksPerDay,
   LongTermDays * TicksPerDay + 1, LongTermDays * TicksPerDay + HalfDay,
   (LongTermDays + 1) * TicksPerDay, Y2025 + HalfDay}

\* lots as the investment handlers leave them
TaxLot(id, sy, cp, d) ==
  [id |-> id, symbol |-> sy, shares |-> 2, purchasePrice |-> 3,
   purchaseDate |-> d, currentPrice |-> Num(cp), lastUpdated |-> d]

TaxLots(id) ==
  {TaxLot(id, sy, cp, d) :
     sy \in {"X"}, cp \in {0, 1, 3, 5}, d \in PurchaseInstants}

RECURSIVE TaxLotSeqs(_)
TaxLotSeqs(n) ==
  IF n = 0 THEN {<<>>}
  ELSE TaxLotSeqs(n - 1)
         \cup {Append(sq, l) : sq \in {t \in TaxLotSeqs(n - 1) : Len(t) = n - 1},
                               l \in TaxLots(n)}

InitTax ==
  /\ \E invs \in TaxLotSeqs(MaxTaxLots) :
       db = [p \in PIds |->
               IF p = 1
               THEN PreSave([NewPortfolio("u1", FALSE) EXCEPT !.investments = invs], 0)
               ELSE NoDoc]
  /\ nextPid = 2
  /\ nextLotId = MaxTaxLots + 1
  /\ now \in EvalInstants
  /\ reqs = [s \in Slots |-> IdleReq]

TaxYears == {Num(2023), Num(2024), NumStr(2023), Num(1999), BadStr}

NextTax ==
  \/ \E u \in Users, p \in PIds, y \in TaxYears : CalculateGains(1, u, p, y)

SpecTax == InitTax /\ [][NextTax]_vars

\* The loss-harvesting handler on a portfolio of u1 holding up to
\* MaxHarvestLots lots with a loss, at break-even, with a gain or without a
\* live price.
MaxHarvestLots == 3

HarvestLots(id) ==
  {TaxLot(id, sy, cp, d) :
     sy \in {"X"}, cp \in {0, 1, 2, 3, 5}, d \in {0, HalfDay}}

RECURSIVE HarvestLotSeqs(_)
HarvestLotSeqs(n) ==
  IF n = 0 THEN {<<>>}
  ELSE HarvestLotSeqs(n - 1)
         \cup {Append(sq, l) :
                 sq \in {t \in HarvestLotSeqs(n - 1) : Len(t) = n - 1},
                 l \in HarvestLots(n)}

InitHarvest ==
  /\ \E invs \in HarvestLotSeqs(MaxHarvestLots) :
       db = [p \in PIds |->
               IF p = 1
               THEN PreSave([NewPortfolio("u1", FALSE) EXCEPT !.investments = invs], 0)
               ELSE NoDoc]
  /\ nextPid = 2
  /\ nextLotId = MaxHarvestLots + 1
  /\ now = Y2024
  /\ reqs = [s \in Slots |-> IdleReq]

NextHarvest ==
  \/ \E u \in Users, p \in PIds : HarvestBegin(1, u, p)
  \/ \E o \in OracleOutcomes : HarvestFinish(1, o)

SpecHarvest == InitHarvest /\ [][NextHarvest]_vars

\* Every operation on a portfolio, by its owner and by another user, on the
\* portfolio of u1 (one lot) and on an id without portfolio, with valid and
\* invalid input, one request at a time.
ScopedAdds == {AddBody("x", Num(2), Num(3), Undef),
               AddBody("x", BadStr, Num(3), Undef),
               AddBody("x", Num(2), Num(3), EmptyStr),
               AddBody("x", Num(2), Num(3), BadStr)}

ScopedUpds == {UpdLotBody(Num(1), Num(1), DateStr(0)),
               UpdLotBody(Undef, BadStr, Undef),
               UpdLotBody(Undef, Undef, BadStr)}

InitScoped ==
  /\ db = [p \in PIds |->
             IF p = 1
             THEN PreSave([NewPortfolio("u1", FALSE) EXCEPT
                             !.investments = <<TaxLot(1, "X", 1, 0)>>,
                             !.version = 1], 0)
             ELSE NoDoc]
  /\ nextPid = 2
  /\ nextLotId = 2
  /\ now = 0
  /\ reqs = [s \in Slots |-> IdleReq]

NextScoped ==
  \/ \E u \in Users, p \in PIds : GetOne(1, u, p)
  \/ \E u \in Users, p \in PIds, b \in CreateBodies : UpdateBegin(1, u, p, b)
  \/ UpdateMany(1)
  \/ UpdateSave(1)
  \/ Deletes(1, Users)
  \/ Lots(1, Users, ScopedAdds, ScopedUpds, FewOutcomes)
  \/ \E u \in Users, p \in PIds, y \in TaxYears : CalculateGains(1, u, p, y)
  \/ \E u \in Users, p \in PIds : HarvestBegin(1, u, p)
  \/ \E o \in OracleOutcomes : HarvestFinish(1, o)

SpecScoped == InitScoped /\ [][NextScoped]_vars

\* The tax handlers asked again and again, on two connections, about
\* portfolio 1 of u1, which no other request touches, while the second
\* portfolio of u1 is updated, the oracle answers or fails and the clock
\* passes the first anniversary of the lots.
Anniversary == LongTermDays * TicksPerDay

RepeatPortfolio ==
  PreSave([NewPortfolio("u1", FALSE) EXCEPT
             !.investments = <<TaxLot(1, "X", 1, 0)>>, !.version = 1], 0)

InitRepeat ==
  /\ db = [p \in PIds |->
             IF p = 1 THEN RepeatPortfolio
             ELSE PreSave([NewPortfolio("u1", FALSE) EXCEPT
                             !.investments = <<TaxLot(2, "Y", 5, 0)>>,
                             !.version = 1], 0)]
  /\ nextPid = MaxPortfolios + 1
  /\ nextLotId = MaxLotIds + 1
  /\ now = Anniversary
  /\ reqs = [s \in Slots |-> IdleReq]

\* a second passes, until the second after the anniversary
TickPastAnniversary ==
  /\ now < Anniversary + 1
  /\ now' = now + 1
  /\ UNCHANGED <<db, nextPid, nextLotId, reqs>>

NextRepeat ==
  \/ \E r \in Slots, u \in Users, p \in PIds, y \in {Num(2023), Num(2024)} :
       CalculateGains(r, u, p, y)
  \/ \E r \in Slots, u \in Users, p \in PIds : HarvestBegin(r, u, p)
  \/ \E r \in Slots, o \in OracleOutcomes : HarvestFinish(r, o)
  \/ \E l \in LotIds, b \in FewUpds : UpdLotBegin(1, "u1", 2, l, b)
  \/ \E q \in FewOutcomes : UpdLotQuote(1, q)
  \/ UpdLotSave(1)
  \/ TickPastAnniversary

SpecRepeat == InitRepeat /\ [][NextRepeat]_vars

-----------------------------------------------------------------------------
(* Properties *)

\* the request of the sequential specifications
Req1 == reqs[1]

Finished(kind) == Req1.pc = "done" /\ Req1.kind = kind

RECURSIVE SumCost(_)
\* sum over the lots of purchasePrice * shares
SumCost(invs) ==
  IF invs = <<>> THEN 0
  ELSE Head(invs).purchasePrice * Head(invs).shares + SumCost(Tail(invs))

\* the lot's current price is set and is not zero
HasNonzeroPrice(inv) == inv.currentPrice.t = "num" /\ inv.currentPrice.v # 0

\* the lot's current price is set and is positive
HasPositivePrice(inv) == inv.currentPrice.t = "num" /\ inv.currentPrice.v > 0

RECURSIVE SumValueNonzero(_)
\* sum over the lots of price * shares, the price being the current price
\* when it is set and not zero, the purchase price otherwise
SumValueNonzero(invs) ==
  IF invs = <<>> THEN 0
  ELSE (IF HasNonzeroPrice(Head(invs)) THEN Head(invs).currentPrice.v
        ELSE Head(invs).purchasePrice) * Head(invs).shares
       + SumValueNonzero(Tail(invs))

RECURSIVE SumValuePositive(_)
\* the same sum, the current price being used only when set and positive
SumValuePositive(invs) ==
  IF invs = <<>> THEN 0
  ELSE (IF HasPositivePrice(Head(invs)) THEN Head(invs).currentPrice.v
        ELSE Head(invs).purchasePrice) * Head(invs).shares
       + SumValuePositive(Tail(invs))

Stored == {p \in PIds : db[p].exists}

Defaults(u) == {p \in Stored : db[p].user = u /\ db[p].isDefault}

\* C1: whatever requests have been served, every persisted portfolio has
\* totalCost equal to the sum over its lots of purchasePrice * shares and
\* totalValue equal to the sum over its lots of (currentPrice or, failing
\* that, purchasePrice) * shares; the totals being a function of the lots,
\* committing again with the same lots gives the same totals.
C1_TotalsAreSums ==
  \A p \in Stored :
    /\ db[p].totalCost = SumCost(db[p].investments)
    /\ db[p].totalValue = SumValueNonzero(db[p].investments)

\* an update of a portfolio has been committed on two lots whose value
\* differs from their cost
C1_Witness ==
  /\ Finished("update") /\ Req1.status = 200
  /\ Len(db[Req1.pid].investments) = 2
  /\ db[Req1.pid].totalCost > 0
  /\ db[Req1.pid].totalValue # db[Req1.pid].totalCost

\* C2: under concurrent create-portfolio and update-portfolio requests, at
\* most one portfolio of an owner is the default one.
C2_AtMostOneDefault == \A u \in Users : Cardinality(Defaults(u)) <= 1

\* C3: when a request that asked for isDefault = true has succeeded and the
\* owner had another default portfolio P1 when it started, P1 is no longer
\* default and the request's portfolio P2 is.
C3_DefaultMoves ==
  /\ Req1.pc = "done" /\ Req1.kind \in {"create", "update"}
  /\ Req1.status \in {200, 201}
  /\ Req1.body.isDefault
  /\ Req1.prevDefault \notin {0, Req1.pid}
  => /\ ~db[Req1.prevDefault].isDefault
     /\ db[Req1.pid].isDefault
     /\ Defaults(Req1.user) = {Req1.pid}

\* an update has made an existing portfolio default while another one was
C3_Witness ==
  /\ Finished("update") /\ Req1.status = 200
  /\ Req1.body.isDefault
  /\ Req1.prevDefault \notin {0, Req1.pid}
  /\ db[Req1.prevDefault].exists

\* the step in which the save of a refresh lands and the refresh is answered
RefreshCommits == Req1.pc = "refresh_save" /\ reqs'[1].pc = "done"

\* C4: in a refresh, every lot of a symbol whose quote request failed keeps
\* the currentPrice it had, and the lots of the symbols that were quoted a
\* (non-zero) price get it.
C4_FailedSymbolsKeepPrice ==
  [][RefreshCommits =>
       LET before == db[Req1.pid].investments
           after == db'[Req1.pid].investments
       IN /\ Len(after) = Len(before)
          /\ \A i \in 1..Len(before) :
               /\ before[i].symbol \in reqs'[1].failed
                  => after[i].currentPrice = before[i].currentPrice
               /\ Truthy(reqs'[1].quotes[before[i].symbol])
                  => after[i].currentPrice = reqs'[1].quotes[before[i].symbol]]_vars

\* a refresh in which the quote of X failed and Y was quoted 5: the lot of
\* X does not have the price 5, the lot of Y has
C4_Witness ==
  /\ Finished("refresh") /\ Req1.status = 200
  /\ Req1.failed = {"X"}
  /\ Req1.quotes["Y"] = Num(5)
  /\ \E i, j \in 1..Len(db[Req1.pid].investments) :
       /\ db[Req1.pid].investments[i].symbol = "X"
       /\ db[Req1.pid].investments[i].currentPrice # Num(5)
       /\ db[Req1.pid].investments[j].symbol = "Y"
       /\ db[Req1.pid].investments[j].currentPrice = Num(5)

\* the lots of symbol s in the portfolio of the finished request
LotsOf(s) ==
  {i \in 1..Len(db[Req1.pid].investments) :
     db[Req1.pid].investments[i].symbol = s}

\* C5 as claimed: after a refresh, every lot of a symbol that was quoted a
\* price (any number) has that price as its currentPrice.
C5_QuotedPriceApplied ==
  Finished("refresh") /\ Req1.status = 200
  => \A s \in Symbols :
       Req1.quotes[s].t = "num"
       => \A i \in LotsOf(s) :
            db[Req1.pid].investments[i].currentPrice = Req1.quotes[s]

\* C5 as amended: after a refresh, every lot of a symbol that was quoted a
\* price other than zero has that price as its currentPrice and the time of
\* the refresh as its lastUpdated.
C5_NonzeroQuoteApplied ==
  Finished("refresh") /\ Req1.status = 200
  => \A s \in Symbols :
       Req1.quotes[s].t = "num" /\ Req1.quotes[s].v # 0
       => \A i \in LotsOf(s) :
            /\ db[Req1.pid].investments[i].currentPrice = Req1.quotes[s]
            /\ db[Req1.pid].investments[i].lastUpdated = db[Req1.pid].updatedAt

\* a refresh at clock reading 1 gave both lots of X, added earlier, the
\* quoted price -1
C5_Witness ==
  /\ Finished("refresh") /\ Req1.status = 200
  /\ Req1.quotes["X"] = Num(-1)
  /\ Cardinality(LotsOf("X")) = 2
  /\ db[Req1.pid].updatedAt = 1
  /\ \A i \in LotsOf("X") :
       /\ db[Req1.pid].investments[i].currentPrice = Num(-1)
       /\ db[Req1.pid].investments[i].lastUpdated = 1
       /\ db[Req1.pid].investments[i].purchaseDate = 0

\* C6: a refresh is answered 200 when the portfolio exists and belongs to
\* the requester, whatever the quotes did, and 404 otherwise.
C6_RefreshFailsOnlyNotFound ==
  Finished("refresh")
  => Req1.status = IF /\ Req1.pid \in Stored
                      /\ db[Req1.pid].user = Req1.user
                   THEN 200 ELSE 404

\* a refresh of a portfolio of lots of X and Y in which every quote failed
C6_Witness ==
  /\ Finished("refresh") /\ Req1.status = 200
  /\ Req1.failed = {"X", "Y"}

\* C7 as claimed: the price that enters totalValue is the currentPrice only
\* when it is set and positive, the purchasePrice otherwise.
C7_PositivePriceOnly ==
  \A p \in Stored : db[p].totalValue = SumValuePositive(db[p].investments)

\* C7 as amended: the price that enters totalValue is the currentPrice when
\* it is set and not zero (a negative one included), the purchasePrice when
\* it is unset or zero.
C7_NonzeroPriceOnly ==
  \A p \in Stored : db[p].totalValue = SumValueNonzero(db[p].investments)

\* a portfolio holding a lot with a negative currentPrice and a lot whose
\* currentPrice is unset
C7_Witness ==
  \E p \in Stored :
    \E i, j \in 1..Len(db[p].investments) :
      /\ db[p].investments[i].currentPrice = Num(-1)
      /\ db[p].investments[i].shares > 0
      /\ db[p].investments[j].currentPrice = Undef
      /\ db[p].investments[j].purchasePrice > 0
      /\ db[p].investments[j].shares > 0

\* C8: a persisted portfolio without lots has totalCost = 0 and
\* totalValue = 0; creating a portfolio (with an acceptable name) and
\* removing a lot are answered with success, not with an error.
C8_EmptyTotalsZero ==
  /\ \A p \in Stored :
       db[p].investments = <<>> => db[p].totalCost = 0 /\ db[p].totalValue = 0
  /\ Finished("create") /\ NameGiven(Req1.body.name) /\ NameValid(Req1.body.name)
     => /\ Req1.status = 201
        /\ db[Req1.pid].exists
        /\ db[Req1.pid].investments = <<>>
  /\ Finished("remove") => Req1.status \in {200, 404}

\* the only lot of a portfolio has been removed
C8_Witness ==
  /\ Finished("remove") /\ Req1.status = 200
  /\ db[Req1.pid].investments = <<>>
  /\ db[Req1.pid].totalCost = 0

\* the elapsed time between the purchase of entry e and the evaluation
Elapsed(e) == Req1.evalAt - e.purchaseDate

Entries == {Req1.out.investments[k] : k \in 1..Len(Req1.out.investments)}

\* C9: in a capital-gains answer a lot is long-term exactly when it has been
\* held for more than 365 days: 365 whole days and some more, or more whole
\* days; a lot held exactly 365 days is short-term.
C9_LongTermIffOver365 ==
  Finished("gains") /\ Req1.status = 200
  => \A e \in Entries :
       LET days == Elapsed(e) \div TicksPerDay
           rest == Elapsed(e) % TicksPerDay
       IN /\ e.isLongTerm <=> (days > 365 \/ (days = 365 /\ rest > 0))
          /\ (days = 365 /\ rest = 0) => ~e.isLongTerm

\* an answer with a lot held exactly 365 days, short-term, and a lot held
\* longer, long-term
C9_Witness ==
  /\ Finished("gains") /\ Req1.status = 200
  /\ \E e \in Entries : Elapsed(e) = 365 * TicksPerDay /\ ~e.isLongTerm
  /\ \E e \in Entries : Elapsed(e) > 365 * TicksPerDay /\ e.isLongTerm

\* C10 as claimed: the holding period is truncated to whole days, so a lot
\* held at least 365 days and less than 366 days is short-term.
C10_TruncatedToWholeDays ==
  Finished("gains") /\ Req1.status = 200
  => \A e \in Entries :
       Elapsed(e) \div TicksPerDay = 365 => ~e.isLongTerm

\* C10 as amended: the holding period is not truncated: of the lots held at
\* least 365 days and less than 366 days, the one held exactly 365 days is
\* short-term and all the others are long-term.
C10_FractionCounts ==
  Finished("gains") /\ Req1.status = 200
  => \A e \in Entries :
       Elapsed(e) \div TicksPerDay = 365
       => (e.isLongTerm <=> Elapsed(e) % TicksPerDay > 0)

\* an answer with a lot held 365 days and a half, long-term
C10_Witness ==
  /\ Finished("gains") /\ Req1.status = 200
  /\ \E e \in Entries :
       Elapsed(e) = 365 * TicksPerDay + HalfDay /\ e.isLongTerm

-----------------------------------------------------------------------------
(* Capital gains and loss harvesting *)

\* the persisted lots of the portfolio the request named
ReqLots == db[Req1.pid].investments

\* the positions of the lots bought in the target year or before
EligibleIdx ==
  {i \in 1..Len(ReqLots) :
     GetFullYear(ReqLots[i].purchaseDate) <= Req1.body.year.v}

\* the k-th position of a set of positions, in increasing order
KthOf(idx, k) == CHOOSE i \in idx : Cardinality({j \in idx : j < i}) = k - 1

RECURSIVE SumOver(_, _)
\* sum of the numbers term[i] over the positions i of idx
SumOver(term, idx) ==
  IF idx = {} THEN 0
  ELSE LET i == CHOOSE j \in idx : TRUE
       IN term[i] + SumOver(term, idx \ {i})

\* (stored currentPrice - purchasePrice) * shares of each persisted lot
StoredGains ==
  [i \in 1..Len(ReqLots) |->
     (ReqLots[i].currentPrice.v - ReqLots[i].purchasePrice) * ReqLots[i].shares]

\* C11: a capital-gains answer for year Y has one entry for each lot bought
\* in year Y or before, in the order of the lots, and none for a lot bought
\* later; the total of the gains is the sum over those lots only.
C11_EntriesAreEligibleLots ==
  Finished("gains") /\ Req1.status = 200
  => /\ Len(Req1.out.investments) = Cardinality(EligibleIdx)
     /\ \A k \in 1..Len(Req1.out.investments) :
          LET lot == ReqLots[KthOf(EligibleIdx, k)]
              e == Req1.out.investments[k]
          IN /\ e.purchaseDate = lot.purchaseDate
             /\ e.currentPrice = lot.currentPrice
             /\ e.shares = lot.shares
     /\ Req1.out.totalGains = SumOver(StoredGains, EligibleIdx)
     /\ Req1.out.shortTermGains + Req1.out.longTermGains
          = SumOver(StoredGains, EligibleIdx)

\* an answer for 2023 on a portfolio holding a lot of 2023 and a lot of 2024
\* whose gain is not zero
C11_Witness ==
  /\ Finished("gains") /\ Req1.status = 200
  /\ Req1.body.year.v = 2023
  /\ Cardinality(EligibleIdx) = 1
  /\ \E i \in 1..Len(ReqLots) :
       i \notin EligibleIdx /\ StoredGains[i] # 0

\* the price C7 and C12 call effective, as the claims word it: the current
\* price when it is set and positive, the purchase price otherwise
EffectivePrice(x) ==
  IF x.currentPrice.t = "num" /\ x.currentPrice.v > 0
  THEN x.currentPrice.v ELSE x.purchasePrice

\* C12: in a capital-gains answer every entry's unrealizedGain is
\* (effectivePrice - purchasePrice) * shares, the effective price falling
\* back to the purchase price when the lot has no positive current price; an
\* entry whose lot has no live price (current price unset or 0) has gain 0.
C12_GainUsesEffectivePrice ==
  Finished("gains") /\ Req1.status = 200
  => \A k \in 1..Len(Req1.out.investments) :
       LET e == Req1.out.investments[k]
       IN /\ e.unrealizedGain = (EffectivePrice(e) - e.purchasePrice) * e.shares
          /\ (e.currentPrice.t = "undef" \/ e.currentPrice.v = 0)
               => e.unrealizedGain = 0

\* the entries of the answer and their gains, by position
OutEntries == Req1.out.investments

EntryGains == [k \in 1..Len(OutEntries) |-> OutEntries[k].unrealizedGain]

ShortIdx == {k \in 1..Len(OutEntries) : ~OutEntries[k].isLongTerm}

LongIdx == {k \in 1..Len(OutEntries) : OutEntries[k].isLongTerm}

\* C13: in a capital-gains answer shortTermGains is the sum of the gains of
\* the entries that are not long-term, longTermGains the sum of the gains of
\* the long-term entries, each entry is in exactly one of the two groups, and
\* totalGains is the sum of the two, which is the sum over all the entries.
C13_GainsAreBucketSums ==
  Finished("gains") /\ Req1.status = 200
  => /\ Req1.out.shortTermGains = SumOver(EntryGains, ShortIdx)
     /\ Req1.out.longTermGains = SumOver(EntryGains, LongIdx)
     /\ ShortIdx \cup LongIdx = 1..Len(OutEntries)
     /\ ShortIdx \cap LongIdx = {}
     /\ Req1.out.totalGains = Req1.out.shortTermGains + Req1.out.longTermGains
     /\ Req1.out.totalGains = SumOver(EntryGains, 1..Len(OutEntries))

\* an answer with a short-term entry and a long-term entry whose gains
\* differ and are not zero
C13_Witness ==
  /\ Finished("gains") /\ Req1.status = 200
  /\ \E k \in ShortIdx, l \in LongIdx :
       /\ EntryGains[k] # 0 /\ EntryGains[l] # 0
       /\ EntryGains[k] # EntryGains[l]

\* C14: when no lot of the portfolio was bought in the target year or
\* before (no lot at all, or only later ones), the capital-gains request
\* succeeds with the three totals 0 and an empty breakdown.
C14_NoEligibleLotZeroes ==
  Finished("gains") /\ YearValid(Req1.body.year)
    /\ Req1.pid \in Stored /\ db[Req1.pid].user = Req1.user
    /\ EligibleIdx = {}
  => /\ Req1.status = 200
     /\ Req1.out.shortTermGains = 0
     /\ Req1.out.longTermGains = 0
     /\ Req1.out.totalGains = 0
     /\ Req1.out.investments = <<>>

\* such an answer on a portfolio whose lots were all bought after the target
\* year and have a gain
C14_Witness ==
  /\ Finished("gains") /\ Req1.status = 200
  /\ Len(ReqLots) = 2 /\ EligibleIdx = {}
  /\ \A i \in 1..Len(ReqLots) : StoredGains[i] # 0
  /\ Req1.out.investments = <<>>

\* the opportunities of a tax-loss-harvesting answer
Opps == Req1.opportunities

\* the positions of the lots whose effective price is below their purchase
\* price
EffectiveLossIdx ==
  {i \in 1..Len(ReqLots) : EffectivePrice(ReqLots[i]) < ReqLots[i].purchasePrice}

\* C15: the opportunities of a tax-loss-harvesting answer are exactly the
\* lots whose effective price (current price when set and positive, purchase
\* price otherwise) is strictly below their purchase price: one entry per
\* such lot, and no entry for a lot at break-even, with a gain or without a
\* live price.
C15_OpportunitiesAreEffectiveLosses ==
  Finished("harvest") /\ Req1.status = 200
  => /\ Len(Opps) = Cardinality(EffectiveLossIdx)
     /\ \A k \in 1..Len(Opps) : EffectivePrice(Opps[k]) < Opps[k].purchasePrice

\* the purchase dates, in order, of the pairs of sq whose loss is n
DatesOfLoss(sq, n) ==
  LET hit == SelectSeq(sq, LAMBDA x : x.loss = n)
  IN [k \in 1..Len(hit) |-> hit[k].purchaseDate]

\* the loss of a lot on its stored current price
StoredLoss(inv) == (inv.purchasePrice - inv.currentPrice.v) * inv.shares

\* loss and purchase date of the opportunities, in order
OppPairs ==
  [k \in 1..Len(Opps) |->
     [loss |-> Opps[k].totalLoss, purchaseDate |-> Opps[k].purchaseDate]]

\* loss and purchase date of the lots, in order
LotPairs ==
  [i \in 1..Len(ReqLots) |->
     [loss |-> StoredLoss(ReqLots[i]), purchaseDate |-> ReqLots[i].purchaseDate]]

\* C16: the opportunities are in descending order of totalLoss, and the
\* entries of equal totalLoss are in the order of their lots in the
\* portfolio.
C16_SortedByLossStable ==
  Finished("harvest") /\ Req1.status = 200
  => /\ \A k \in 1..(Len(Opps) - 1) : Opps[k].totalLoss >= Opps[k + 1].totalLoss
     /\ \A k \in 1..Len(Opps) :
          DatesOfLoss(OppPairs, Opps[k].totalLoss)
            = DatesOfLoss(LotPairs, Opps[k].totalLoss)

\* an answer of three entries, the lot of the largest loss being the last of
\* the portfolio and the two others, of equal loss, bought on different days
C16_Witness ==
  /\ Finished("harvest") /\ Req1.status = 200
  /\ Len(Opps) = 3 /\ Len(ReqLots) = 3
  /\ Opps[1].totalLoss > Opps[2].totalLoss
  /\ Opps[2].totalLoss = Opps[3].totalLoss
  /\ Opps[2].purchaseDate # Opps[3].purchaseDate
  /\ StoredLoss(ReqLots[3]) = Opps[1].totalLoss
  /\ StoredLoss(ReqLots[1]) = Opps[2].totalLoss

\* C17: every opportunity carries totalLoss = (purchasePrice -
\* effectivePrice) * shares of its lot.
C17_TotalLossOnEffectivePrice ==
  Finished("harvest") /\ Req1.status = 200
  => \A k \in 1..Len(Opps) :
       Opps[k].totalLoss
         = (Opps[k].purchasePrice - EffectivePrice(Opps[k])) * Opps[k].shares

\* C18: when no lot of the portfolio is a loss candidate (none has an
\* effective price below its purchase price) the tax-loss-harvesting request
\* succeeds with an empty list of opportunities and the advisory oracle is
\* not called; a request that has called the oracle is on a portfolio with
\* at least one such lot.
C18_OracleOnlyForCandidates ==
  /\ Finished("harvest") /\ Req1.pid \in Stored
       /\ db[Req1.pid].user = Req1.user
       /\ EffectiveLossIdx = {}
     => Req1.status = 200 /\ Opps = <<>> /\ ~Req1.oracle
  /\ Req1.kind = "harvest" /\ Req1.oracle => EffectiveLossIdx # {}

\* C19: with investment requests on one portfolio in flight together, every
\* persisted state of the portfolio has totalCost and totalValue equal to
\* the sums over the lots of that same state (an update may be lost, but the
\* lots of one request never stand with the totals of another).
C19_ConcurrentTotalsAreSums ==
  \A p \in Stored :
    LET lots == db[p].investments
    IN /\ db[p].totalCost = SumCost(lots)
       /\ db[p].totalValue = SumValueNonzero(lots)

\* the operations on one portfolio
ScopedKinds == {"get", "update", "delete", "add", "updlot", "remove",
                "refresh", "gains", "harvest"}

\* this step starts a request on a portfolio
BeginsScoped ==
  /\ Free(1) /\ reqs'[1] # reqs[1]
  /\ reqs'[1].kind \in ScopedKinds

\* the portfolio the request names does not exist or is not the
\* requester's, or the lot it names is not in the portfolio
TargetMissing(q) ==
  \/ q.pid \notin Stored
  \/ db[q.pid].user # q.user
  \/ /\ q.kind \in {"updlot", "remove"}
     /\ \A i \in 1..Len(db[q.pid].investments) :
          db[q.pid].investments[i].id # q.lotId

\* the request passes the input checks of its route
InputValid(q) ==
  CASE q.kind = "update" -> q.body.name # ""
    [] q.kind = "add" -> /\ q.body.symbol # ""
                         /\ IsNumeric(q.body.shares)
                         /\ IsNumeric(q.body.purchasePrice)
    [] q.kind = "updlot" -> /\ OptionalNumeric(q.body.shares)
                            /\ OptionalNumeric(q.body.purchasePrice)
    [] q.kind = "gains" -> /\ IsNumeric(q.body.year)
                           /\ q.body.year.v >= 2000 /\ q.body.year.v <= 2100
    [] OTHER -> TRUE

\* C20 as claimed: a request on a portfolio that does not exist or belongs
\* to another user, or on a lot that is not in the portfolio, ends not-found
\* and changes no persisted portfolio.
C20_MissingTargetNotFound ==
  [][BeginsScoped /\ TargetMissing(reqs'[1])
       => /\ reqs'[1].pc = "done" /\ reqs'[1].status = 404
          /\ db' = db]_vars

\* C20 as amended: such a request ends at once and changes no persisted
\* portfolio; it ends not-found when its input passes the route's checks,
\* and with the validation error when it does not.
C20_MissingTargetNotFoundOrInvalid ==
  [][BeginsScoped /\ TargetMissing(reqs'[1])
       => /\ reqs'[1].pc = "done"
          /\ reqs'[1].status = IF InputValid(reqs'[1]) THEN 404 ELSE 400
          /\ db' = db]_vars

\* a lot update with valid input by a user who does not own the portfolio
\* has ended not-found, the portfolio and its lot being as they were
C20_Witness ==
  /\ Finished("updlot") /\ Req1.status = 404
  /\ IsNumeric(Req1.body.shares)
  /\ Req1.user = "u2" /\ Req1.pid \in Stored /\ db[Req1.pid].user = "u1"
  /\ \E i \in 1..Len(ReqLots) : ReqLots[i].id = Req1.lotId

-----------------------------------------------------------------------------
(* Investment requests *)

\* x is given and is not a number, or is a negative number
BadNumber(x) == x.t = "str" \/ (IsNumeric(x) /\ x.v < 0)

\* the step in which an add or an update of a lot that carries negative or
\* non-numeric shares or purchase price is answered
AnswersBadLot ==
  /\ reqs'[1] # Req1 /\ reqs'[1].pc = "done"
  /\ reqs'[1].kind \in {"add", "updlot"}
  /\ BadNumber(reqs'[1].body.shares) \/ BadNumber(reqs'[1].body.purchasePrice)

\* no persisted lot has negative shares or a negative purchase price
NoNegativeLot ==
  \A p \in Stored : \A i \in 1..Len(db[p].investments) :
    db[p].investments[i].shares >= 0 /\ db[p].investments[i].purchasePrice >= 0

\* C21: an add or an update of a lot with negative shares, a negative
\* purchase price or non-numeric shares or price is refused and commits
\* nothing: the persisted portfolios (lots, totalCost, totalValue) are the
\* same after the answer; so no persisted lot ever has shares < 0 or
\* purchasePrice < 0.
C21_BadLotRejected ==
  /\ [][AnswersBadLot => reqs'[1].status # 200 /\ db' = db]_vars
  /\ []NoNegativeLot

\* an update with negative purchase price of a lot of the requester has been
\* refused by the save, the lot being as it was
C21_Witness ==
  /\ Finished("updlot") /\ Req1.status = 500
  /\ Req1.body.purchasePrice = Num(-1)
  /\ Req1.pid \in Stored /\ db[Req1.pid].user = Req1.user
  /\ \E i \in 1..Len(db[Req1.pid].investments) :
       /\ db[Req1.pid].investments[i].id = Req1.lotId
       /\ db[Req1.pid].investments[i].purchasePrice > 0

\* the persisted lot the finished request added or named
ReqLot ==
  LET lots == db[Req1.pid].investments
  IN lots[CHOOSE i \in 1..Len(lots) : lots[i].id = Req1.lotId]

\* the quote source gave the finished request no price for the symbol of its
\* lot: the quote request failed, or its answer carried no price
NoLivePrice == Req1.quotes[ReqLot.symbol].t = "undef"

\* C22: when a lot is added and no live quote is available for its symbol
\* (the quote request fails or yields no price), the lot is added with
\* currentPrice equal to its purchasePrice.
C22_NoQuoteFallsBackToPurchasePrice ==
  Finished("add") /\ Req1.status = 200 /\ NoLivePrice
  => ReqLot.currentPrice = Num(ReqLot.purchasePrice)

-----------------------------------------------------------------------------
(* The tax requests leave the portfolios alone *)

TaxKinds == {"gains", "harvest"}

\* slot r holds the result of a tax request of u1 on portfolio 1: the gains
\* of an answered capital-gains request, or the selection of a
\* loss-harvesting request, answered or handed to the oracle
HoldsResult(r) ==
  /\ reqs[r].kind \in TaxKinds /\ reqs[r].user = "u1" /\ reqs[r].pid = 1
  /\ \/ reqs[r].pc = "done" /\ reqs[r].status = 200
     \/ reqs[r].pc = "harvest_oracle"

\* the two slots hold results of the same question: same kind, same body;
\* for the gains, the same evaluation instant
SameQuestion ==
  /\ HoldsResult(1) /\ HoldsResult(2)
  /\ reqs[1].kind = reqs[2].kind /\ reqs[1].body = reqs[2].body
  /\ reqs[1].kind = "gains" => reqs[1].evalAt = reqs[2].evalAt

SameResult ==
  /\ reqs[1].out = reqs[2].out
  /\ reqs[1].opportunities = reqs[2].opportunities

\* this step is a step of a tax request on slot r
TaxStep(r) == reqs'[r] # reqs[r] /\ reqs'[r].kind \in TaxKinds

C23_SameResultAtAnyInstant ==
  HoldsResult(1) /\ HoldsResult(2)
    /\ reqs[1].kind = reqs[2].kind /\ reqs[1].body = reqs[2].body
  => SameResult

C23_GainsRepeated ==
  /\ SameQuestion /\ reqs[1].kind = "gains"
  /\ reqs[1].out.totalGains # 0 /\ SameResult
  /\ db[2].investments[1].shares = 1

-----------------------------------------------------------------------------
(* Updates of a lot *)

\* C24: after a successful update of a lot carrying shares = v or
\* purchasePrice = v (v >= 0, zero included) the persisted lot has that
\* value, and the totals are those of the lots with it.
C24_SuppliedFieldsSet ==
  Finished("updlot") /\ Req1.status = 200
  => /\ IsNumeric(Req1.body.shares) => ReqLot.shares = Req1.body.shares.v
     /\ IsNumeric(Req1.body.purchasePrice)
          => ReqLot.purchasePrice = Req1.body.purchasePrice.v
     /\ db[Req1.pid].totalCost = SumCost(ReqLots)

\* the step in which an update of a lot is answered: its save lands, or is
\* rejected when it is called
UpdLotCommits ==
  Req1.pc \in {"updlot_quote", "updlot_save"} /\ reqs'[1].pc = "done"

\* the lots of a persisted portfolio as a reader gets them
LotsRead(doc) == Hydrate(doc).investments

\* C25: an update of a lot changes that lot only: the portfolio has the same
\* lots in the same order, the lot keeps its id and symbol, every other lot
\* keeps all its fields, and the other portfolios are unchanged.
C25_UpdateTouchesOneLot ==
  [][UpdLotCommits =>
       LET before == LotsRead(db[Req1.pid])
           after == LotsRead(db'[Req1.pid])
       IN /\ Len(after) = Len(before)
          /\ \A i \in 1..Len(before) :
               /\ after[i].id = before[i].id
               /\ after[i].symbol = before[i].symbol
               /\ before[i].id # Req1.lotId => after[i] = before[i]
          /\ \A p \in PIds \ {Req1.pid} : db'[p] = db[p]]_vars

\* an update has changed the shares and the price of one of two lots of the
\* same symbol, the other lot having another price
C25_Witness ==
  /\ Finished("updlot") /\ Req1.status = 200
  /\ Len(ReqLots) = 2
  /\ ReqLots[1].symbol = ReqLots[2].symbol
  /\ IsNumeric(Req1.body.shares) /\ ReqLot.shares = Req1.body.shares.v
  /\ ReqLot.currentPrice = Num(5)
  /\ \E i \in 1..2 : ReqLots[i].id # Req1.lotId /\ ReqLots[i].currentPrice # Num(5)

-----------------------------------------------------------------------------
(* Price refresh *)

\* C26: a refresh leaves the lots of the portfolio in place and in order,
\* with their id, symbol, shares, purchasePrice and purchaseDate; it changes
\* currentPrice and lastUpdated only, and only on lots whose symbol was
\* quoted a price; totalCost is the same before and after, and the other
\* portfolios are unchanged.
C26_RefreshTouchesPricesOnly ==
  [][RefreshCommits =>
       LET before == LotsRead(db[Req1.pid])
           after == LotsRead(db'[Req1.pid])
       IN /\ Len(after) = Len(before)
          /\ \A i \in 1..Len(before) :
               /\ after[i].id = before[i].id
               /\ after[i].symbol = before[i].symbol
               /\ after[i].shares = before[i].shares
               /\ after[i].purchasePrice = before[i].purchasePrice
               /\ after[i].purchaseDate = before[i].purchaseDate
               /\ after[i] # before[i]
                  => /\ before[i].symbol \notin reqs'[1].failed
                     /\ reqs'[1].quotes[before[i].symbol].t = "num"
          /\ db'[Req1.pid].totalCost = db[Req1.pid].totalCost
          /\ db'[Req1.pid].isDefault = db[Req1.pid].isDefault
          /\ \A p \in PIds \ {Req1.pid} : db'[p] = db[p]]_vars

\* a refresh at a later instant has given the lot of X the price 5 and a new
\* lastUpdated, and left the lot of Y, whose quote failed, as it was
C26_Witness ==
  /\ Finished("refresh") /\ Req1.status = 200
  /\ Len(ReqLots) = 2 /\ Req1.failed = {"Y"}
  /\ \E i, j \in 1..2 :
       /\ ReqLots[i].symbol = "X" /\ ReqLots[i].currentPrice = Num(5)
       /\ ReqLots[i].lastUpdated = now /\ ReqLots[i].purchaseDate < now
       /\ ReqLots[j].symbol = "Y" /\ ReqLots[j].lastUpdated < now
  /\ db[Req1.pid].totalCost = SumCost(ReqLots) /\ db[Req1.pid].totalCost > 0

\* the orderings of the elements of a sequence without repetition
Orderings(sq) ==
  {p \in [1..Len(sq) -> {sq[k] : k \in 1..Len(sq)}] :
     \A i, j \in 1..Len(sq) : p[i] = p[j] => i = j}

\* the outcomes of the quotes a refresh has received, by symbol
QuotesReceived ==
  [s \in Symbols |-> IF s \in Req1.failed THEN [ok |-> FALSE, price |-> Undef]
                     ELSE [ok |-> TRUE, price |-> Req1.quotes[s]]]

\* C27: for a refresh in flight, whatever the outcome of the quote of each
\* symbol, quoting the distinct symbols in any order gives the same saved
\* lots and totals as quoting them in the order of the handler; and the
\* document the handler saves is the one its order gives for the outcomes
\* it received.
C27_QuoteOrderIrrelevant ==
  /\ Req1.pc = "refresh_quote"
     => \A o \in [Symbols -> QuoteOutcomes] : \A p \in Orderings(Req1.syms) :
          RefreshResult(Req1.orig, p, o, now)
            = RefreshResult(Req1.orig, Req1.syms, o, now)
  /\ Req1.pc = "refresh_save"
     => Req1.doc = RefreshResult(Req1.orig, Req1.syms, QuotesReceived,
                                 Req1.doc.updatedAt)

\* a refresh of a portfolio with lots of two symbols has committed a price
\* for the one and a different price for the other
C27_Witness ==
  /\ Finished("refresh") /\ Req1.status = 200
  /\ Req1.quotes["X"] = Num(5) /\ Req1.quotes["Y"] = Num(-1)
  /\ \E i, j \in 1..Len(ReqLots) :
       /\ ReqLots[i].symbol = "X" /\ ReqLots[i].currentPrice = Num(5)
       /\ ReqLots[j].symbol = "Y" /\ ReqLots[j].currentPrice = Num(-1)

-----------------------------------------------------------------------------
(* Classification and target year *)

\* this step answers a capital-gains request right after another one was
\* answered, both with a result and at the same instant
GainsAgain ==
  /\ Finished("gains") /\ Req1.status = 200
  /\ reqs'[1] # Req1
  /\ reqs'[1].kind = "gains" /\ reqs'[1].pc = "done" /\ reqs'[1].status = 200
  /\ reqs'[1].evalAt = Req1.evalAt

\* C28: at one evaluation instant the classification of a lot is the same
\* in the capital-gains result of every target year that admits it: entries
\* of two results with the same purchase date have the same isLongTerm.
C28_ClassificationIgnoresYear ==
  [][GainsAgain =>
       \A k \in 1..Len(Req1.out.investments) :
         \A l \in 1..Len(reqs'[1].out.investments) :
           Req1.out.investments[k].purchaseDate
             = reqs'[1].out.investments[l].purchaseDate
           => Req1.out.investments[k].isLongTerm
                = reqs'[1].out.investments[l].isLongTerm]_vars

\* the result for 2023, asked one second after the first anniversary of a
\* lot bought on 2023-01-01, has the lot as long-term
C28_Witness ==
  /\ Finished("gains") /\ Req1.status = 200
  /\ Req1.body.year = Num(2023)
  /\ Req1.evalAt = LongTermDays * TicksPerDay + 1
  /\ \E k \in 1..Len(Req1.out.investments) :
       /\ Req1.out.investments[k].purchaseDate = 0
       /\ Req1.out.investments[k].isLongTerm

-----------------------------------------------------------------------------
(* Update of a lot without a quote *)

\* the lot of id in a sequence of lots
LotOfId(lots, id) == lots[CHOOSE i \in 1..Len(lots) : lots[i].id = id]

\* x is not given, or is a number that is not negative
AbsentOrValid(x) == x.t = "undef" \/ (IsNumeric(x) /\ x.v >= 0)

\* C29: when the quote request of a lot update fails, the update (of valid
\* values) still succeeds: the shares, purchasePrice and purchaseDate that
\* were supplied are committed, currentPrice and lastUpdated stay as they
\* were, and the totals are those of the lots with the new values.
C29_QuoteFailureKeepsUpdate ==
  [][UpdLotCommits /\ reqs'[1].failed # {}
       /\ AbsentOrValid(Req1.body.shares)
       /\ AbsentOrValid(Req1.body.purchasePrice)
     => LET before == LotOfId(LotsRead(db[Req1.pid]), Req1.lotId)
            after == LotOfId(LotsRead(db'[Req1.pid]), Req1.lotId)
            lots == db'[Req1.pid].investments
        IN /\ reqs'[1].status = 200
           /\ IsNumeric(Req1.body.shares) => after.shares = Req1.body.shares.v
           /\ IsNumeric(Req1.body.purchasePrice)
                => after.purchasePrice = Req1.body.purchasePrice.v
           /\ Req1.body.purchaseDate.t = "date"
                => after.purchaseDate = Req1.body.purchaseDate.v
           /\ after.currentPrice = before.currentPrice
           /\ after.lastUpdated = before.lastUpdated
           /\ db'[Req1.pid].totalCost = SumCost(lots)
           /\ db'[Req1.pid].totalValue = SumValueNonzero(lots)]_vars

-----------------------------------------------------------------------------
(* The default flag *)

\* this step clears the default flag of the persisted portfolio p
ClearsDefault(p) ==
  /\ db[p].exists /\ db[p].isDefault
  /\ db'[p].exists /\ ~db'[p].isDefault

\* the finished create or update request has cleared the default flag of
\* the portfolio that was its owner's default when it started
HasClearedDefault ==
  /\ Req1.pc = "done" /\ Req1.kind \in {"create", "update"}
  /\ Req1.prevDefault # 0
  /\ db[Req1.prevDefault].exists /\ ~db[Req1.prevDefault].isDefault

\* C30: no step of an update request clears the default flag of the
\* portfolio it targets; a step that clears a default flag clears it on a
\* portfolio of the requester only; and a request that has cleared a
\* default flag has made another portfolio of the same owner the default.
C30_DefaultClearedOnlyByNewDefault ==
  /\ [][Req1.kind = "update" /\ Req1.pc # "done" /\ Req1.pid \in PIds
          => ~ClearsDefault(Req1.pid)]_vars
  /\ [][\A p \in PIds : ClearsDefault(p) => db[p].user = Req1.user]_vars
  /\ [](HasClearedDefault
          => \E p \in Stored \ {Req1.prevDefault} :
               db[p].user = Req1.user /\ db[p].isDefault)

====
